---- MODULE Spec2Model ----
\* Model of the two review pipelines of the repository:
\*   src/sonar-reviewer.js  the console variant (prints the review)
\*   src/reviewer.js        the review-comment variant (posts to the pull request)
\* Strings whose characters matter (component, message, completion text) are
\* sequences of one-character strings; error messages are sequences of words.
EXTENDS Integers, Sequences, FiniteSets, TLC

VARIABLES variant, missing, pc, exitCode, fatal, issues, idx, rt, comment, trace

vars == <<variant, missing, pc, exitCode, fatal, issues, idx, rt, comment, trace>>

\* ---------------------------------------------------------------- bounds
MaxIssues == 2
MaxScript == 3
MaxRetries == 2
MaxLen == 4

\* ---------------------------------------------------- program constants
DefaultRetries == 2
DefaultBaseDelayMs == 500

\* ------------------------------------------------------------ JS values
Undefined == [defined |-> FALSE, str |-> <<>>]

Str(s) == [defined |-> TRUE, str |-> s]

\* `a || b` on a string-or-undefined value: undefined and "" are falsy
OrElse(a, b) == IF a.defined /\ a.str # <<>> THEN a ELSE b

Pow2(n) == 2 ^ n

\* ---------------------------------------------------------- environment
ConsoleRequired ==
  {"SONARQUBE_URL", "SONARQUBE_PROJECT", "SONARQUBE_TOKEN", "AZURE_OPENAI_API_KEY",
   "AZURE_OPENAI_ENDPOINT", "AZURE_OPENAI_DEPLOYMENT", "AZURE_OPENAI_API_VERSION",
   "GITHUB_TOKEN", "GIT_USERNAME"}

ReviewRead ==
  {"SONARQUBE_URL", "SONARQUBE_PROJECT", "SONARQUBE_TOKEN", "AZURE_OPENAI_API_KEY",
   "AZURE_OPENAI_RESOURCE", "AZURE_OPENAI_DEPLOYMENT", "AZURE_OPENAI_API_VERSION",
   "GITHUB_TOKEN", "GITHUB_REPOSITORY", "PR_NUMBER", "GITHUB_SHA"}

EnvVars == ConsoleRequired \cup ReviewRead

\* missingVars of the console variant: the required names whose value is falsy
MissingVars(absent) == ConsoleRequired \cap absent

\* ------------------------------------------------------- path extraction
\* index of the first sep at or after position from, 0 when there is none
RECURSIVE IndexFrom(_, _, _)
IndexFrom(s, sep, from) ==
  IF from > Len(s) THEN 0
  ELSE IF s[from] = sep THEN from
  ELSE IndexFrom(s, sep, from + 1)

\* String.prototype.split(sep) for a one-character separator
RECURSIVE Split(_, _)
Split(s, sep) ==
  LET k == IndexFrom(s, sep, 1)
  IN IF k = 0 THEN <<s>>
     ELSE <<SubSeq(s, 1, k - 1)>> \o Split(SubSeq(s, k + 1, Len(s)), sep)

\* array[n] with a 0-based index: undefined past the end
At(arr, n) == IF n + 1 <= Len(arr) THEN Str(arr[n + 1]) ELSE Undefined

\* issue.component.split(":")[1] || issue.component
ConsoleFilePath(component) == OrElse(At(Split(component, ":"), 1), Str(component))

\* issue.component.split(":")[1]
ReviewFilePath(component) == At(Split(component, ":"), 1)

FilePath(v, component) ==
  IF v = "console" THEN ConsoleFilePath(component) ELSE ReviewFilePath(component)

\* line || 1, an absent line being 0
LineOrOne(line) == IF line = 0 THEN 1 ELSE line

\* String.prototype.trim over the characters of the model
RECURSIVE TrimLeft(_)
TrimLeft(s) == IF s # <<>> /\ Head(s) = " " THEN TrimLeft(Tail(s)) ELSE s

RECURSIVE TrimRight(_)
TrimRight(s) ==
  IF s # <<>> /\ s[Len(s)] = " " THEN TrimRight(SubSeq(s, 1, Len(s) - 1)) ELSE s

Trim(s) == TrimRight(TrimLeft(s))

\* ------------------------------------------------------------- findings
Finding(component, line, message) ==
  [component |-> component, line |-> line, message |-> message]

\* the findings the quality server may report: one with a file path and a line,
\* one whose component has no ':' , no line, and a message with outer blanks,
\* one whose project key holds a ':'
Findings ==
  {Finding(<<"p", ":", "a">>, 7, <<"m", "1">>),
   Finding(<<"p">>, 0, <<" ", "m", "2", " ">>),
   Finding(<<"o", ":", "p", ":", "a">>, 3, <<"m", "3">>)}

RECURSIVE SeqsUpTo(_, _)
SeqsUpTo(S, n) ==
  IF n = 0 THEN {<<>>}
  ELSE LET shorter == SeqsUpTo(S, n - 1)
       IN shorter \cup {Append(q, x) : q \in {r \in shorter : Len(r) = n - 1}, x \in S}

JsArray(items) == [defined |-> TRUE, items |-> items]

UndefinedArray == [defined |-> FALSE, items |-> <<>>]

\* ------------------------------------------------- failures and outcomes
Err(words) == [message |-> words]

NoErr == Err(<<"<undefined>">>)

ErrConnection == Err(<<"APIConnectionError">>)
ErrFetchFailed == Err(<<"fetch failed">>)
ErrNotFound == Err(<<"getaddrinfo", "ENOTFOUND">>)
ErrTimedOut == Err(<<"connect", "ETIMEDOUT">>)
ErrUnauthorized == Err(<<"401", "Unauthorized">>)
ErrNoMessage == Err(<<>>)

TransientErrors == {ErrConnection, ErrFetchFailed, ErrNotFound, ErrTimedOut}
PermanentErrors == {ErrUnauthorized, ErrNoMessage}

NoValue == [none |-> TRUE]

Returns(v) == [kind |-> "return", value |-> v, err |-> NoErr]
Throws(e) == [kind |-> "throw", value |-> NoValue, err |-> e]

\* a chat completion: choices[0].message.content, or no choice at all
Completion(content) == [choices |-> <<content>>]
MalformedCompletion == [choices |-> <<>>]
GoodCompletion == Completion(<<" ", "g", " ">>)

\* msg.includes(marker)
Includes(msg, marker) == \E k \in DOMAIN msg : msg[k] = marker

\* ----------------------------------------------------------- withRetry
\* mutant: every failure is taken for a connectivity failure
IsConnAnyMessage(msg) == TRUE

IsConn(msg) ==
  \/ Includes(msg, "APIConnectionError")
  \/ Includes(msg, "fetch failed")
  \/ Includes(msg, "ENOTFOUND")
  \/ Includes(msg, "ETIMEDOUT")

\* mutant: the budget test of the catch block is dropped
BudgetNeverExhausted(attempt, retries) == FALSE

BudgetExhausted(attempt, retries) == attempt = retries

\* mutant: the exponent is one too high
DelayOffByOne(baseDelayMs, attempt) == baseDelayMs * Pow2(attempt + 1)

Delay(baseDelayMs, attempt) == baseDelayMs * Pow2(attempt)

RetryIdle ==
  [status |-> "idle", retries |-> 0, baseDelayMs |-> 0, attempt |-> 0,
   lastErr |-> NoErr, calls |-> 0, delays |-> <<>>, value |-> NoValue,
   script |-> <<>>]

\* entry of withRetry: attempt = 0, lastErr undefined
RetryStart(retries, baseDelayMs, script) ==
  [RetryIdle EXCEPT !.status = "running", !.retries = retries,
                    !.baseDelayMs = baseDelayMs, !.script = script]

\* one pass of the loop body: await fn(), and the catch block up to the timer
RetryAfterCall(r, o) ==
  IF o.kind = "return"
  THEN [r EXCEPT !.calls = @ + 1, !.status = "returned", !.value = o.value]
  ELSE IF ~IsConn(o.err.message) \/ BudgetExhausted(r.attempt, r.retries)
       THEN [r EXCEPT !.calls = @ + 1, !.lastErr = o.err, !.status = "raised"]
       ELSE [r EXCEPT !.calls = @ + 1, !.lastErr = o.err, !.status = "sleeping",
                      !.delays = Append(@, Delay(r.baseDelayMs, r.attempt))]

\* the timer fires: attempt += 1 and the while condition is tested again
RetryAfterDelay(r) ==
  [r EXCEPT !.attempt = @ + 1,
            !.status = IF r.attempt + 1 <= r.retries THEN "running" ELSE "raised"]

\* what withRetry hands to its caller once it has finished
RetryOutcome(r) == IF r.status = "returned" THEN Returns(r.value) ELSE Throws(r.lastErr)

RetryFinished(r) == r.status \in {"returned", "raised"}

\* outcomes of the completion call in a run
CompletionOutcomes ==
  {Returns(GoodCompletion), Returns(MalformedCompletion),
   Throws(ErrTimedOut), Throws(ErrUnauthorized)}

\* outcomes of a scripted operation handed to withRetry
OperationOutcomes ==
  {Returns(GoodCompletion)} \cup {Throws(e) : e \in TransientErrors \cup PermanentErrors}

\* what invocation number n of fn may yield: the script's entry (its last one
\* repeating), or anything when the operation is not scripted
OutcomesOfCall(r, n) ==
  IF r.script = <<>> THEN CompletionOutcomes
  ELSE {r.script[IF n <= Len(r.script) THEN n ELSE Len(r.script)]}

\* ------------------------------------------------------ fetchSonarIssues
\* mutant: the `|| []` default is dropped
IssuesField(data) == data.issues

\* data.issues || []
IssuesOrEmpty(data) == IF data.issues.defined THEN data.issues ELSE JsArray(<<>>)

HttpResponse(ok, issuesField) ==
  [kind |-> "http", ok |-> ok, data |-> [issues |-> issuesField]]

NetworkError == [kind |-> "network-error", ok |-> FALSE, data |-> [issues |-> UndefinedArray]]

\* the URL is "undefined/api/issues/search...": no request leaves the process
InvalidUrl == [kind |-> "invalid-url", ok |-> FALSE, data |-> [issues |-> UndefinedArray]]

\* res.json() rejects: the body of a success response is not JSON
BadJson == [kind |-> "bad-json", ok |-> TRUE, data |-> [issues |-> UndefinedArray]]

FetchResponses(absent) ==
  IF "SONARQUBE_URL" \in absent THEN {InvalidUrl}
  ELSE {NetworkError, BadJson, HttpResponse(FALSE, UndefinedArray),
        HttpResponse(TRUE, UndefinedArray)}
       \cup {HttpResponse(TRUE, JsArray(q)) : q \in SeqsUpTo(Findings, MaxIssues)}

\* mutant: the res.ok test is dropped
FetchSonarIssuesIgnoringStatus(res) ==
  IF res.kind \in {"network-error", "invalid-url"} THEN Throws(Err(<<"fetch failed">>))
  ELSE IF res.kind = "bad-json" THEN Throws(Err(<<"invalid json">>))
  ELSE Returns(IF res.data.issues.defined THEN res.data.issues ELSE JsArray(<<>>))

FetchSonarIssues(res) ==
  IF res.kind \in {"network-error", "invalid-url"} THEN Throws(Err(<<"fetch failed">>))
  ELSE IF res.kind = "bad-json" THEN Throws(Err(<<"invalid json">>))
  ELSE IF ~res.ok THEN Throws(Err(<<"SonarQube API error">>))
  ELSE Returns(IssuesOrEmpty(res.data))

\* --------------------------------------------------------- enhanceWithGPT
\* mutant: only the completion call is inside the try block, so reading a
\* malformed response raises out of enhanceWithGPT
EnhanceWithGPTNarrowTry(issue, o) ==
  IF o.kind = "throw" THEN [kind |-> "return", text |-> issue.message]
  ELSE IF o.value.choices = <<>> THEN [kind |-> "throw", text |-> <<>>]
  ELSE [kind |-> "return", text |-> Trim(o.value.choices[1])]

\* the body of the try block once the completion call has settled, and the
\* catch block around all of it
EnhanceWithGPT(issue, o) ==
  IF o.kind = "return" /\ o.value.choices # <<>>
  THEN [kind |-> "return", text |-> Trim(o.value.choices[1])]
  ELSE [kind |-> "return", text |-> issue.message]

EnrichmentFailed(o) == o.kind = "throw" \/ o.value.choices = <<>>

\* ------------------------------------------------------------ postComment
\* mutant: the failure of createReviewComment is not caught
PostCommentUncaught(ok) == IF ok THEN "continue" ELSE "throw"

\* the try/catch around createReviewComment: a failed call is logged only
PostComment(ok) == "continue"

\* --------------------------------------------------------------- the loop
\* mutant: the loop steps over every other finding
NextIndexSkipping(i) == i + 2

NextIndex(i) == i + 1

Event(kind, i, text) == [kind |-> kind, i |-> i, text |-> text]

Exit(code, why) ==
  /\ pc' = "exit"
  /\ exitCode' = code
  /\ fatal' = why

\* the step after a finding is done: the next finding, or the end of run()
Advance(tr) ==
  LET j == NextIndex(idx)
  IN /\ idx' = j
     /\ IF j <= Len(issues.items)
        THEN /\ pc' = IF variant = "console" THEN "header" ELSE "enhance"
             /\ trace' = tr
             /\ UNCHANGED <<exitCode, fatal>>
        ELSE /\ trace' = IF variant = "console"
                         THEN Append(tr, Event("summary", Len(issues.items), <<>>))
                         ELSE tr
             /\ Exit(0, "none")

\* ---------------------------------------------------------------- actions
\* module load of the console variant: the required-variable check
StartConsole ==
  /\ pc = "start"
  /\ variant = "console"
  /\ IF MissingVars(missing) # {}
     THEN Exit(1, "config")
     ELSE /\ pc' = "fetch"
          /\ UNCHANGED <<exitCode, fatal>>
  /\ UNCHANGED <<variant, missing, issues, idx, rt, comment, trace>>

\* module load of the review-comment variant: the clients are built from the
\* environment as it is; GITHUB_REPOSITORY.split fails on an absent value, and
\* the client library may or may not accept an absent API key
StartReview ==
  /\ pc = "start"
  /\ variant = "review"
  /\ \/ /\ "GITHUB_REPOSITORY" \in missing \/ "AZURE_OPENAI_API_KEY" \in missing
        /\ Exit(1, "load")
     \/ /\ "GITHUB_REPOSITORY" \notin missing
        /\ pc' = "fetch"
        /\ UNCHANGED <<exitCode, fatal>>
  /\ UNCHANGED <<variant, missing, issues, idx, rt, comment, trace>>

\* run(): await fetchSonarIssues(), then the empty check or the loop entry
Fetch ==
  /\ pc = "fetch"
  /\ \E res \in FetchResponses(missing) :
       LET o == FetchSonarIssues(res)
           tr == Append(trace, [kind |-> "fetch", i |-> 0, text |-> <<>>,
                                net |-> res.kind # "invalid-url",
                                ok |-> res.kind = "http" /\ res.ok,
                                hasIssues |-> res.data.issues.defined,
                                count |-> Len(res.data.issues.items)])
       IN /\ trace' = tr
          /\ IF o.kind = "throw" \/ ~o.value.defined
             THEN /\ Exit(1, "run")
                  /\ UNCHANGED <<issues, idx>>
             ELSE /\ issues' = o.value
                  /\ IF Len(o.value.items) = 0
                     THEN /\ Exit(0, "none")
                          /\ UNCHANGED idx
                     ELSE /\ pc' = IF variant = "console" THEN "header" ELSE "enhance"
                          /\ idx' = 1
                          /\ UNCHANGED <<exitCode, fatal>>
  /\ UNCHANGED <<variant, missing, rt, comment>>

\* console variant, top of the loop body: the block's header lines are
\* printed, then enhanceWithGPT is entered and withRetry starts
ConsoleHeader ==
  /\ pc = "header"
  /\ variant = "console"
  /\ LET issue == issues.items[idx]
     IN trace' = Append(trace, [kind |-> "header", i |-> idx, text |-> issue.message,
                                path |-> FilePath("console", issue.component)])
  /\ rt' = RetryStart(DefaultRetries, DefaultBaseDelayMs, <<>>)
  /\ pc' = "enhance"
  /\ UNCHANGED <<variant, missing, exitCode, fatal, issues, idx, comment>>

\* withRetry: fn() is invoked and settles
RetryInvoke ==
  /\ rt.status = "running"
  /\ \E o \in OutcomesOfCall(rt, rt.calls + 1) :
       /\ rt' = RetryAfterCall(rt, o)
       /\ trace' = Append(trace, Event("completion", idx, <<>>))
  /\ UNCHANGED <<variant, missing, pc, exitCode, fatal, issues, idx, comment>>

\* withRetry: the backoff timer fires
RetryWake ==
  /\ rt.status = "sleeping"
  /\ rt' = RetryAfterDelay(rt)
  /\ UNCHANGED <<variant, missing, pc, exitCode, fatal, issues, idx, comment, trace>>

\* console variant: withRetry has finished; enhanceWithGPT returns and the
\* enhanced review is printed
ConsoleEnhanced ==
  /\ pc = "enhance"
  /\ variant = "console"
  /\ RetryFinished(rt)
  /\ LET issue == issues.items[idx]
         o == RetryOutcome(rt)
         r == EnhanceWithGPT(issue, o)
     IN IF r.kind = "throw"
        THEN /\ Exit(1, "run")
             /\ UNCHANGED <<idx, comment, trace>>
        ELSE /\ comment' = r.text
             /\ Advance(trace \o <<[kind |-> "enriched", i |-> idx, text |-> r.text,
                                    failed |-> EnrichmentFailed(o)],
                                   Event("comment", idx, r.text)>>)
  /\ rt' = RetryIdle
  /\ UNCHANGED <<variant, missing, issues>>

\* review-comment variant: the completion call is made once and settles;
\* enhanceWithGPT returns and the comment is logged
ReviewEnhance ==
  /\ pc = "enhance"
  /\ variant = "review"
  /\ \E o \in CompletionOutcomes :
       LET issue == issues.items[idx]
           r == EnhanceWithGPT(issue, o)
           tr == Append(trace, Event("completion", idx, <<>>))
       IN IF r.kind = "throw"
          THEN /\ Exit(1, "run")
               /\ trace' = tr
               /\ UNCHANGED comment
          ELSE /\ comment' = r.text
               /\ trace' = tr \o <<[kind |-> "enriched", i |-> idx, text |-> r.text,
                                    failed |-> EnrichmentFailed(o)],
                                   Event("comment", idx, r.text)>>
               /\ pc' = "post"
               /\ UNCHANGED <<exitCode, fatal>>
  /\ UNCHANGED <<variant, missing, issues, idx, rt>>

\* review-comment variant: postComment calls createReviewComment, which settles
ReviewPost ==
  /\ pc = "post"
  /\ variant = "review"
  /\ \E ok \in BOOLEAN :
       LET issue == issues.items[idx]
           tr == Append(trace, [kind |-> "post", i |-> idx, text |-> comment,
                                path |-> FilePath("review", issue.component),
                                line |-> LineOrOne(issue.line), ok |-> ok])
       IN IF PostComment(ok) = "throw"
          THEN /\ Exit(1, "run")
               /\ trace' = tr
               /\ UNCHANGED idx
          ELSE Advance(tr)
  /\ UNCHANGED <<variant, missing, issues, rt, comment>>

\* path extraction applied to one component on its own
ExtractPath ==
  /\ pc = "path"
  /\ trace' = Append(trace, [kind |-> "path", i |-> idx, text |-> <<>>,
                             path |-> FilePath(variant, issues.items[idx].component)])
  /\ pc' = "path-done"
  /\ UNCHANGED <<variant, missing, exitCode, fatal, issues, idx, rt, comment>>

\* --------------------------------------------------------- specifications
Variants == {"console", "review"}

\* the environment at process start: complete, or with one value absent
Environments == {{}} \cup {{v} : v \in EnvVars}

Init ==
  /\ variant \in Variants
  /\ missing \in Environments
  /\ pc = "start"
  /\ exitCode = 0
  /\ fatal = "none"
  /\ issues = JsArray(<<>>)
  /\ idx = 0
  /\ rt = RetryIdle
  /\ comment = <<>>
  /\ trace = <<>>

Next ==
  \/ StartConsole
  \/ StartReview
  \/ Fetch
  \/ ConsoleHeader
  \/ RetryInvoke
  \/ RetryWake
  \/ ConsoleEnhanced
  \/ ReviewEnhance
  \/ ReviewPost

Spec == Init /\ [][Next]_vars

\* withRetry on its own, on a scripted operation and with any options
BaseDelays == {DefaultBaseDelayMs, 300}

Scripts == SeqsUpTo(OperationOutcomes, MaxScript) \ {<<>>}

InitRetry ==
  /\ variant = "console"
  /\ missing = {}
  /\ pc = "retry"
  /\ exitCode = 0
  /\ fatal = "none"
  /\ issues = JsArray(<<>>)
  /\ idx = 0
  /\ \E n \in 0..MaxRetries, b \in BaseDelays, sc \in Scripts : rt = RetryStart(n, b, sc)
  /\ comment = <<>>
  /\ trace = <<>>

NextRetry ==
  \/ RetryInvoke
  \/ RetryWake

\* a settled promise and an expired timer are always run by the event loop
SpecRetry == InitRetry /\ [][NextRetry]_vars /\ WF_vars(NextRetry)

\* path extraction on its own, on every short component
Chars == {"p", "s", ":"}

Components == SeqsUpTo(Chars, MaxLen)

InitPath ==
  /\ variant \in Variants
  /\ missing = {}
  /\ pc = "path"
  /\ exitCode = 0
  /\ fatal = "none"
  /\ \E c \in Components : issues = JsArray(<<Finding(c, 0, <<>>)>>)
  /\ idx = 1
  /\ rt = RetryIdle
  /\ comment = <<>>
  /\ trace = <<>>

NextPath == ExtractPath

SpecPath == InitPath /\ [][NextPath]_vars

\* ================================================================ claims
KindAt(k, kinds) == trace[k].kind \in kinds

CountOf(kind, i) == Cardinality({k \in DOMAIN trace : trace[k].kind = kind /\ trace[k].i = i})

NetworkCallMade ==
  \E k \in DOMAIN trace :
    \/ trace[k].kind \in {"completion", "post"}
    \/ trace[k].kind = "fetch" /\ trace[k].net

RunSucceeded == pc = "exit" /\ exitCode = 0 /\ fatal = "none"

\* C1: a finding whose completion call fails (a failure raised at once or
\* after the retries, or a malformed response) makes enhanceWithGPT return the
\* finding's original message unchanged; that message is what is printed or
\* posted for the finding; the failure never ends the run, which goes on to
\* the next finding.
C1_FallbackIsOriginalMessage ==
  /\ \A k \in DOMAIN trace :
       (trace[k].kind = "enriched" /\ trace[k].failed) =>
          /\ trace[k].text = issues.items[trace[k].i].message
          /\ k + 1 \in DOMAIN trace
          /\ trace[k + 1] = Event("comment", trace[k].i, issues.items[trace[k].i].message)
          /\ \A j \in DOMAIN trace :
               (trace[j].kind = "post" /\ trace[j].i = trace[k].i) =>
                  trace[j].text = issues.items[trace[k].i].message
  /\ (\E k \in DOMAIN trace : trace[k].kind = "completion") => fatal # "run"
  /\ RunSucceeded => \A i \in 1..Len(issues.items) : CountOf("enriched", i) = 1

\* C1 witness: a run of two findings has ended, the first finding's enrichment
\* failed and its message (with outer blanks) was published, and the second
\* finding was processed after it.
C1_Witness ==
  /\ RunSucceeded
  /\ Len(issues.items) = 2
  /\ issues.items[1].message = <<" ", "m", "2", " ">>
  /\ \E k \in DOMAIN trace :
       /\ trace[k].kind = "enriched" /\ trace[k].i = 1 /\ trace[k].failed
       /\ \E j \in DOMAIN trace : j > k /\ trace[j].kind = "comment" /\ trace[j].i = 2

\* the claims' own reading of "transient": the failure carries one of the
\* connectivity markers
TransientFailure(o) == o.kind = "throw" /\ o.err \in TransientErrors

PermanentFailure(o) == o.kind = "throw" /\ o.err \in PermanentErrors

FailsTwiceThenSucceeds(sc) ==
  /\ Len(sc) >= 3
  /\ TransientFailure(sc[1])
  /\ TransientFailure(sc[2])
  /\ sc[3].kind = "return"

\* C2: with the defaults (retries 2, base delay 500) an operation that fails
\* twice with a transient message and then succeeds is invoked exactly 3 times,
\* withRetry returns its value, and the delays are 500 then 1000; in general the
\* delay after failed attempt a (from 0) is baseDelayMs * 2^a.
C2_TwoFailuresThenSuccess ==
  /\ \A a \in DOMAIN rt.delays : rt.delays[a] = rt.baseDelayMs * 2 ^ (a - 1)
  /\ (/\ rt.retries = 2
      /\ rt.baseDelayMs = 500
      /\ FailsTwiceThenSucceeds(rt.script)) =>
        /\ rt.calls <= 3
        /\ rt.status = "sleeping" => rt.calls = Len(rt.delays)
        /\ RetryFinished(rt) =>
             /\ rt.status = "returned"
             /\ rt.value = rt.script[3].value
             /\ rt.calls = 3
             /\ rt.delays = <<500, 1000>>

\* C2 witness: withRetry with the defaults has returned after two transient
\* failures and two delays.
C2_Witness ==
  /\ pc = "retry"
  /\ rt.retries = 2 /\ rt.baseDelayMs = 500
  /\ FailsTwiceThenSucceeds(rt.script)
  /\ rt.status = "returned"
  /\ rt.calls = 3
  /\ Len(rt.delays) = 2

\* C3: when the operation's first failure carries no transient marker,
\* withRetry invokes it once, waits for no delay and raises that same failure,
\* whatever the retry budget; a later invocation failing that way is the last
\* one as well.
C3_PermanentFailureNotRetried ==
  /\ (rt.script # <<>> /\ PermanentFailure(rt.script[1])) =>
        /\ rt.calls <= 1
        /\ rt.delays = <<>>
        /\ rt.status \in {"running", "raised"}
        /\ rt.calls = 1 => (rt.status = "raised" /\ rt.lastErr = rt.script[1].err)
  /\ \A n \in DOMAIN rt.script :
       (n <= rt.calls /\ PermanentFailure(rt.script[n])) =>
          /\ rt.calls = n
          /\ rt.status = "raised"
          /\ rt.lastErr = rt.script[n].err
          /\ Len(rt.delays) = n - 1

\* C3 witness: withRetry with retries left has raised a failure without a
\* transient marker after one invocation.
C3_Witness ==
  /\ pc = "retry"
  /\ rt.retries = 2
  /\ rt.script # <<>> /\ PermanentFailure(rt.script[1])
  /\ rt.status = "raised"
  /\ rt.calls = 1
  /\ rt.attempt = 0

AlwaysTransient(sc) == sc # <<>> /\ \A k \in DOMAIN sc : TransientFailure(sc[k])

ScriptAt(sc, n) == sc[IF n <= Len(sc) THEN n ELSE Len(sc)]

C4_Bounded ==
  /\ rt.calls <= rt.retries + 1
  /\ Len(rt.delays) <= rt.retries
  /\ AlwaysTransient(rt.script) =>
       /\ rt.status # "returned"
       /\ RetryFinished(rt) =>
            /\ rt.calls = rt.retries + 1
            /\ Len(rt.delays) = rt.retries
            /\ rt.lastErr = ScriptAt(rt.script, rt.retries + 1).err

\* C4: withRetry always finishes; the operation is never invoked more than
\* retries + 1 times; when every invocation fails with a transient message it
\* is invoked exactly retries + 1 times, exactly `retries` delays are waited
\* for (none after the last failure), and the last attempt's failure is raised.
C4_Terminates == []C4_Bounded /\ <>RetryFinished(rt)

\* C4 witness: withRetry with the defaults has raised after three transient
\* failures and two delays.
C4_Witness ==
  /\ pc = "retry"
  /\ rt.retries = 2
  /\ AlwaysTransient(rt.script)
  /\ rt.status = "raised"
  /\ rt.calls = 3
  /\ Len(rt.delays) = 2

PerFindingKinds == {"header", "completion", "enriched", "comment", "post"}

\* findings are handled one at a time, in the order fetched
InFetchedOrder ==
  \A j, k \in DOMAIN trace :
    (j < k /\ KindAt(j, PerFindingKinds) /\ KindAt(k, PerFindingKinds)) =>
       trace[j].i <= trace[k].i

\* each finding is enriched once and has its enriched text published once
OncePerFinding ==
  /\ \A i \in 1..Len(issues.items) :
       /\ CountOf("enriched", i) <= 1
       /\ CountOf("comment", i) <= 1
       /\ CountOf("post", i) <= 1
  /\ (RunSucceeded /\ (\E k \in DOMAIN trace : trace[k].kind = "fetch")) =>
       \A i \in 1..Len(issues.items) :
         /\ CountOf("enriched", i) = 1
         /\ CountOf("comment", i) = 1
         /\ variant = "review" => CountOf("post", i) = 1

EnrichedBefore(k) ==
  \E j \in DOMAIN trace : j < k /\ trace[j].kind = "enriched" /\ trace[j].i = trace[k].i

QualityServerValues == {"SONARQUBE_URL", "SONARQUBE_PROJECT", "SONARQUBE_TOKEN"}

SourceHostingValues == {"GITHUB_TOKEN", "GIT_USERNAME", "GITHUB_REPOSITORY", "PR_NUMBER", "GITHUB_SHA"}

SpecRequired(v) ==
  IF v = "console"
  THEN QualityServerValues \cup
       {"AZURE_OPENAI_API_KEY", "AZURE_OPENAI_ENDPOINT", "AZURE_OPENAI_DEPLOYMENT",
        "AZURE_OPENAI_API_VERSION"}
  ELSE QualityServerValues \cup
       {"AZURE_OPENAI_API_KEY", "AZURE_OPENAI_RESOURCE", "AZURE_OPENAI_DEPLOYMENT"} \cup
       {"GITHUB_TOKEN", "GITHUB_REPOSITORY", "PR_NUMBER", "GITHUB_SHA"}

\* C6: with a required value absent the program exits with code 1 before any
\* network call, in both variants; the console variant requires only the
\* quality-server and language-model values.
C6_FailFastOnMissingConfig ==
  /\ (missing \cap SpecRequired(variant) # {}) =>
        /\ ~NetworkCallMade
        /\ pc \in {"start", "exit"}
        /\ pc = "exit" => exitCode = 1
  /\ (variant = "console" /\ missing \subseteq SourceHostingValues) => fatal # "config"

\* the path the specification describes: what follows the first ':' , or the
\* whole component when it holds none
AfterFirstColon(c) ==
  IF \E k \in DOMAIN c : c[k] = ":"
  THEN LET first == CHOOSE k \in DOMAIN c : c[k] = ":" /\ \A j \in 1..(k - 1) : c[j] # ":"
       IN SubSeq(c, first + 1, Len(c))
  ELSE c

\* C7: in both variants the extracted path is what follows the first ':' of
\* the component, and the whole component when it holds no ':'.
C7_PathAfterFirstColon ==
  \A k \in DOMAIN trace :
    trace[k].kind = "path" =>
       trace[k].path = Str(AfterFirstColon(issues.items[trace[k].i].component))

\* C8: in the review-comment variant a failed create-review-comment call never
\* ends the run: every finding is still enriched and has its post attempted,
\* and the run ends with success status however many posts failed.
C8_PostFailureContained ==
  variant = "review" =>
     /\ (\E k \in DOMAIN trace : trace[k].kind = "post") =>
           /\ fatal = "none"
           /\ pc = "exit" => exitCode = 0
     /\ \A k \in DOMAIN trace :
          (trace[k].kind = "post" /\ ~trace[k].ok /\ trace[k].i < Len(issues.items)) =>
             (pc = "enhance" /\ idx = trace[k].i + 1) \/ CountOf("completion", trace[k].i + 1) = 1
     /\ pc = "exit" /\ (\E k \in DOMAIN trace : trace[k].kind = "fetch" /\ trace[k].ok) =>
          /\ RunSucceeded
          /\ \A i \in 1..Len(issues.items) :
               CountOf("enriched", i) = 1 /\ CountOf("post", i) = 1

\* C8 witness: a review run over two findings has ended with success although
\* the first finding's post failed; the second was enriched and posted.
C8_Witness ==
  /\ variant = "review"
  /\ RunSucceeded
  /\ Len(issues.items) = 2
  /\ \E j, k \in DOMAIN trace :
       /\ j < k
       /\ trace[j].kind = "post" /\ trace[j].i = 1 /\ ~trace[j].ok
       /\ trace[k].kind = "post" /\ trace[k].i = 2

FetchedNothing ==
  \E k \in DOMAIN trace : trace[k].kind = "fetch" /\ trace[k].ok /\ trace[k].count = 0

\* C9: when the issue source returns no finding (an empty list, or a response
\* without an `issues` field) the run ends with success status and makes no
\* completion call and no publish call.
C9_EmptyListNoWork ==
  FetchedNothing =>
     /\ RunSucceeded
     /\ \A k \in DOMAIN trace : ~KindAt(k, PerFindingKinds)

\* C9 witness: a run whose fetch answered without an `issues` field has ended.
C9_Witness ==
  /\ pc = "exit"
  /\ \E k \in DOMAIN trace :
       trace[k].kind = "fetch" /\ trace[k].ok /\ ~trace[k].hasIssues

FetchCount == Cardinality({k \in DOMAIN trace : trace[k].kind = "fetch"})

\* C10: the issue fetch is made once per run and never again; when it
\* fails the run ends in the fatal state with a non-zero exit status and no
\* enrichment or publish call is made.
C10_FetchOnceFailureFatal ==
  /\ FetchCount <= 1
  /\ (\E k \in DOMAIN trace : KindAt(k, PerFindingKinds)) => FetchCount = 1
  /\ pc \in {"header", "enhance", "post"} => FetchCount = 1
  /\ (\E k \in DOMAIN trace : trace[k].kind = "fetch" /\ ~trace[k].ok) =>
        /\ pc = "exit"
        /\ exitCode # 0
        /\ fatal = "run"
        /\ \A k \in DOMAIN trace : ~KindAt(k, PerFindingKinds)

\* C10 witness: a run whose fetch got a non-success HTTP status has ended.
C10_Witness ==
  /\ pc = "exit"
  /\ exitCode = 1
  /\ \E k \in DOMAIN trace : trace[k].kind = "fetch" /\ trace[k].net /\ ~trace[k].ok

====
